---- MODULE Spec2Model ----
(***************************************************************************)
(* Cargo shipping: the event sourced Cargo aggregate                       *)
(* (cargoshipping/domainmodel.py) and the BookingApplication that loads    *)
(* it from its stored events, runs one command on it and saves the new     *)
(* event (cargoshipping/application.py).  One cargo (one tracking id) is   *)
(* followed: aggregates are independent of each other.                     *)
(***************************************************************************)
EXTENDS Integers, Sequences, FiniteSets, TLC

VARIABLES
    log,      \* the stored events of the cargo, in version order
    cargo,    \* <<>> or <<obj>>: the Cargo object the last command ran on, as the command left it
    before,   \* <<>> or <<obj>>: that same object as get_cargo returned it, before the command
    outcome,  \* "none" | "ok" | "failed": how the last command ended
    session,  \* per concurrent client: where its application call stands, and what it holds
    reply     \* what the last call returned to its caller, when it returns a value

vars == <<log, cargo, before, outcome, session, reply>>

-----------------------------------------------------------------------------
(* Bounds of the model *)

\* Commands are issued while the log holds fewer events than this.
MaxLog == 4

\* datetime.now() returns a day in 0..MaxTime.
MaxTime == 1

\* The itineraries a cargo is sent along leg by leg have up to this many legs.
MaxLegs == 3

-----------------------------------------------------------------------------
(* Value types *)

\* Python's None where a string or a Location is optional.
None == "None"

\* Python's None where a tuple, an Itinerary or a datetime is optional:
\* an optional value x is <<x>>, and a next expected activity is its own tuple.
Nil == <<>>

\* timedelta(weeks=1), in days.
Week == 7

Location ==
    {"HAMBURG", "HONGKONG", "NEWYORK", "STOCKHOLM", "TOKYO", "NLRTM", "USDAL", "AUMEL"}

\* Location.value: the enum member's value (every member's value is its name).
LocationValue(l) == CHOOSE s \in Location : s = l

\* Location[name]: the enum member of that name.
LocationByName(s) == CHOOSE l \in Location : LocationValue(l) = s

HandlingActivity == {"RECEIVE", "LOAD", "UNLOAD", "CLAIM"}

Leg(o, d, v) == [origin |-> o, destination |-> d, voyage_number |-> v]

Itinerary(o, d, ls) == [origin |-> o, destination |-> d, legs |-> ls]

HONGKONG_STOCKHOLM ==
    Itinerary("HONGKONG", "STOCKHOLM",
              << Leg("HONGKONG", "NEWYORK", "V1"), Leg("NEWYORK", "STOCKHOLM", "V2") >>)

TOKYO_STOCKHOLM ==
    Itinerary("TOKYO", "STOCKHOLM",
              << Leg("TOKYO", "HAMBURG", "V3"), Leg("HAMBURG", "STOCKHOLM", "V4") >>)

\* The registered routes: <<from, to>> -> list of itineraries.
REGISTERED_ROUTES ==
    [k \in {<<"HONGKONG", "STOCKHOLM">>, <<"TOKYO", "STOCKHOLM">>} |->
        IF k = <<"HONGKONG", "STOCKHOLM">> THEN <<HONGKONG_STOCKHOLM>> ELSE <<TOKYO_STOCKHOLM>>]

-----------------------------------------------------------------------------
(* The Cargo aggregate *)

\* Cargo.__init__, run by the Created event at version 0.
Cargo_init(o, d, deadline) ==
    [ origin                    |-> o,
      destination               |-> d,
      arrival_deadline          |-> deadline,
      transport_status          |-> "NOT_RECEIVED",
      routing_status            |-> "NOT_ROUTED",
      is_misdirected            |-> FALSE,
      estimated_time_of_arrival |-> Nil,
      next_expected_activity    |-> Nil,
      route                     |-> Nil,
      last_known_location       |-> None,
      current_voyage_number     |-> None,
      version                   |-> 0 ]

\* A mutate call either returns (ok) or raises (~ok); obj is the object as the
\* call left it, with whatever it had assigned before raising.
Returned(obj) == [ok |-> TRUE, obj |-> obj]
Raised(obj) == [ok |-> FALSE, obj |-> obj]

\* DestinationChanged.mutate that also drops the next expected activity.
DestinationChanged_mutate_resets_activity(ev, obj) ==
    Returned([obj EXCEPT !.destination = ev.destination,
                         !.next_expected_activity = Nil])

\* Cargo.DestinationChanged.mutate
DestinationChanged_mutate(ev, obj) ==
    Returned([obj EXCEPT !.destination = ev.destination])

\* RouteAssigned.mutate without its second assignment: the routing status stays.
RouteAssigned_mutate_keeps_status(ev, obj, t) ==
    Returned([obj EXCEPT !.route = <<ev.route>>,
                         !.estimated_time_of_arrival = <<t + Week>>,
                         !.next_expected_activity = <<"RECEIVE", obj.origin>>,
                         !.is_misdirected = FALSE])

\* RouteAssigned.mutate that keeps the route of a cargo that has one.
RouteAssigned_mutate_keeps_route(ev, obj, t) ==
    Returned([obj EXCEPT !.route = IF obj.route = Nil THEN <<ev.route>> ELSE @,
                         !.routing_status = "ROUTED",
                         !.estimated_time_of_arrival = <<t + Week>>,
                         !.next_expected_activity = <<"RECEIVE", obj.origin>>,
                         !.is_misdirected = FALSE])

\* RouteAssigned.mutate without its last assignment: the misdirection stays.
RouteAssigned_mutate_keeps_misdirected(ev, obj, t) ==
    Returned([obj EXCEPT !.route = <<ev.route>>,
                         !.routing_status = "ROUTED",
                         !.estimated_time_of_arrival = <<t + Week>>,
                         !.next_expected_activity = <<"RECEIVE", obj.origin>>])

\* Cargo.RouteAssigned.mutate; t is what datetime.now() returns.
RouteAssigned_mutate(ev, obj, t) ==
    Returned([obj EXCEPT !.route = <<ev.route>>,
                         !.routing_status = "ROUTED",
                         !.estimated_time_of_arrival = <<t + Week>>,
                         !.next_expected_activity = <<"RECEIVE", obj.origin>>,
                         !.is_misdirected = FALSE])

\* The first index of S: where a loop over the legs breaks.
FirstIndex(S) == CHOOSE i \in S : \A j \in S : i <= j

\* The RECEIVE branch that also takes the cargo off its voyage.
Receive_mutate_off_voyage(ev, obj) ==
    LET legs == obj.route[1].legs
        o1 == [obj EXCEPT !.transport_status = "IN_PORT",
                          !.last_known_location = ev.location,
                          !.current_voyage_number = None]
    IN  IF Len(legs) = 0
          THEN Raised(o1)
          ELSE Returned([o1 EXCEPT !.next_expected_activity =
                            <<"LOAD", ev.location, legs[1].voyage_number>>])

\* RECEIVE branch: legs[0] raises IndexError on an empty leg list, after the
\* two assignments before it.
Receive_mutate(ev, obj) ==
    LET legs == obj.route[1].legs
        o1 == [obj EXCEPT !.transport_status = "IN_PORT",
                          !.last_known_location = ev.location]
    IN  IF Len(legs) = 0
          THEN Raised(o1)
          ELSE Returned([o1 EXCEPT !.next_expected_activity =
                            <<"LOAD", ev.location, legs[1].voyage_number>>])

\* The LOAD branch looking for a leg of the event's voyage, whatever its origin.
Load_mutate_any_origin(ev, obj) ==
    LET legs == obj.route[1].legs
        o1 == [obj EXCEPT !.transport_status = "ONBOARD_CARRIER",
                          !.current_voyage_number = ev.voyage_number]
        hits == { i \in 1..Len(legs) : legs[i].voyage_number = ev.voyage_number }
    IN  IF hits = {}
          THEN Raised(o1)
          ELSE Returned([o1 EXCEPT !.next_expected_activity =
                            <<"UNLOAD", LocationByName(legs[FirstIndex(hits)].destination),
                              ev.voyage_number>>])

\* LOAD branch: for ... else raise, after the two assignments before the loop.
Load_mutate(ev, obj) ==
    LET legs == obj.route[1].legs
        o1 == [obj EXCEPT !.transport_status = "ONBOARD_CARRIER",
                          !.current_voyage_number = ev.voyage_number]
        hits == { i \in 1..Len(legs) :
                    /\ legs[i].origin = LocationValue(ev.location)
                    /\ legs[i].voyage_number = ev.voyage_number }
    IN  IF hits = {}
          THEN Raised(o1)
          ELSE Returned([o1 EXCEPT !.next_expected_activity =
                            <<"UNLOAD", LocationByName(legs[FirstIndex(hits)].destination),
                              ev.voyage_number>>])

\* The UNLOAD branch taking the leg of the event's voyage, not the one after
\* it, for the next leg.
Unload_mutate_same_leg(ev, obj) ==
    LET legs == obj.route[1].legs
        o1 == [obj EXCEPT !.current_voyage_number = None,
                          !.last_known_location = ev.location,
                          !.transport_status = "IN_PORT"]
        hits == { i \in 1..Len(legs) : legs[i].voyage_number = ev.voyage_number }
    IN  IF ev.location = obj.destination
          THEN Returned([o1 EXCEPT !.next_expected_activity = <<"CLAIM", ev.location>>])
        ELSE IF \E i \in 1..Len(legs) : legs[i].destination = LocationValue(ev.location)
          THEN IF hits = {}
                 THEN Returned(o1)
               ELSE IF LocationByName(legs[FirstIndex(hits)].destination) # ev.location
                 THEN Raised(o1)
               ELSE Returned([o1 EXCEPT !.next_expected_activity =
                        <<"LOAD", ev.location, legs[FirstIndex(hits)].voyage_number>>])
        ELSE Returned([o1 EXCEPT !.is_misdirected = TRUE,
                                 !.next_expected_activity = Nil])

\* The UNLOAD branch expecting the CLAIM where the route ends, not at the
\* destination of the cargo.
Unload_mutate_route_end(ev, obj) ==
    LET legs == obj.route[1].legs
        o1 == [obj EXCEPT !.current_voyage_number = None,
                          !.last_known_location = ev.location,
                          !.transport_status = "IN_PORT"]
        hits == { i \in 1..Len(legs) : legs[i].voyage_number = ev.voyage_number }
    IN  IF LocationValue(ev.location) = obj.route[1].destination
          THEN Returned([o1 EXCEPT !.next_expected_activity = <<"CLAIM", ev.location>>])
        ELSE IF \E i \in 1..Len(legs) : legs[i].destination = LocationValue(ev.location)
          THEN IF hits = {}
                 THEN Returned(o1)
               ELSE IF FirstIndex(hits) + 1 > Len(legs)
                 THEN Raised(o1)
               ELSE IF LocationByName(legs[FirstIndex(hits) + 1].origin) # ev.location
                 THEN Raised(o1)
               ELSE Returned([o1 EXCEPT !.next_expected_activity =
                        <<"LOAD", ev.location, legs[FirstIndex(hits) + 1].voyage_number>>])
        ELSE Returned([o1 EXCEPT !.is_misdirected = TRUE,
                                 !.next_expected_activity = Nil])

\* UNLOAD branch.
Unload_mutate(ev, obj) ==
    LET legs == obj.route[1].legs
        o1 == [obj EXCEPT !.current_voyage_number = None,
                          !.last_known_location = ev.location,
                          !.transport_status = "IN_PORT"]
        hits == { i \in 1..Len(legs) : legs[i].voyage_number = ev.voyage_number }
    IN  IF ev.location = obj.destination
          THEN Returned([o1 EXCEPT !.next_expected_activity = <<"CLAIM", ev.location>>])
        ELSE IF \E i \in 1..Len(legs) : legs[i].destination = LocationValue(ev.location)
          THEN IF hits = {}
                 THEN Returned(o1)                       \* the loop ends without a match
               ELSE IF FirstIndex(hits) + 1 > Len(legs)
                 THEN Raised(o1)                         \* legs[i + 1]: IndexError
               ELSE IF LocationByName(legs[FirstIndex(hits) + 1].origin) # ev.location
                 THEN Raised(o1)                         \* the assertion fails
               ELSE Returned([o1 EXCEPT !.next_expected_activity =
                        <<"LOAD", ev.location, legs[FirstIndex(hits) + 1].voyage_number>>])
        ELSE Returned([o1 EXCEPT !.is_misdirected = TRUE,
                                 !.next_expected_activity = Nil])

\* The CLAIM branch that also records where the cargo was claimed.
Claim_mutate_at_location(ev, obj) ==
    Returned([obj EXCEPT !.next_expected_activity = Nil,
                         !.transport_status = "CLAIMED",
                         !.last_known_location = ev.location])

\* The CLAIM branch without its second assignment: the transport status stays.
Claim_mutate_keeps_status(ev, obj) ==
    Returned([obj EXCEPT !.next_expected_activity = Nil])

\* CLAIM branch.
Claim_mutate(ev, obj) ==
    Returned([obj EXCEPT !.next_expected_activity = Nil,
                         !.transport_status = "CLAIMED"])

\* HandlingEventRegistered.mutate with the route asserted only in the branches
\* that read it: a CLAIM goes through on a cargo without a route.
HandlingEventRegistered_mutate_asserts_late(ev, obj) ==
    IF ev.handling_activity = "CLAIM" THEN Claim_mutate(ev, obj)
    ELSE IF obj.route = Nil THEN Raised(obj)
    ELSE IF ev.handling_activity = "RECEIVE" THEN Receive_mutate(ev, obj)
    ELSE IF ev.handling_activity = "LOAD" THEN Load_mutate(ev, obj)
    ELSE IF ev.handling_activity = "UNLOAD" THEN Unload_mutate(ev, obj)
    ELSE Raised(obj)

\* Cargo.HandlingEventRegistered.mutate
HandlingEventRegistered_mutate(ev, obj) ==
    IF obj.route = Nil THEN Raised(obj)                  \* assert obj.route is not None
    ELSE IF ev.handling_activity = "RECEIVE" THEN Receive_mutate(ev, obj)
    ELSE IF ev.handling_activity = "LOAD" THEN Load_mutate(ev, obj)
    ELSE IF ev.handling_activity = "UNLOAD" THEN Unload_mutate(ev, obj)
    ELSE IF ev.handling_activity = "CLAIM" THEN Claim_mutate(ev, obj)
    ELSE Raised(obj)                                     \* Unsupported handling event

\* The event's mutate method, by event class.
mutate(ev, obj, t) ==
    IF ev.type = "DestinationChanged" THEN DestinationChanged_mutate(ev, obj)
    ELSE IF ev.type = "RouteAssigned" THEN RouteAssigned_mutate(ev, obj, t)
    ELSE HandlingEventRegistered_mutate(ev, obj)

-----------------------------------------------------------------------------
(* The event log mechanism: the aggregate's events, replay and save *)

\* __create__: the Created event, at version 0, carries the constructor's arguments.
Created(o, d, deadline) ==
    [type |-> "Created", originator_version |-> 0,
     origin |-> o, destination |-> d, arrival_deadline |-> deadline]

\* The event __trigger_event__ constructs from a command's arguments: the
\* object's version plus one is the event's version.
Event(obj, args) == [originator_version |-> obj.version + 1] @@ args

\* Applying an event to the object: its mutate method, then the object takes
\* the event's version.  Nothing of this is done to the version when mutate raises.
apply_event(ev, obj, t) ==
    LET r == mutate(ev, obj, t)
    IN  IF r.ok THEN Returned([r.obj EXCEPT !.version = ev.originator_version]) ELSE r

\* __trigger_event__: the event is constructed, applied to the object and,
\* when that returned, added to the object's pending events.
trigger_event(obj, args, t) ==
    LET ev == Event(obj, args)
        r == apply_event(ev, obj, t)
    IN  [ok |-> r.ok, obj |-> r.obj, pending |-> IF r.ok THEN <<ev>> ELSE <<>>]

\* __save__: the pending events are appended to the stored events.
save(events, pending) == events \o pending

RECURSIVE replay(_, _, _)
replay(obj, events, t) ==
    IF events = <<>> THEN obj
    ELSE replay(apply_event(Head(events), obj, t).obj, Tail(events), t)

\* repository.get_instance_of: the object rebuilt from its stored events at
\* time t, or Nil when there are none.
get_instance_of(events, t) ==
    IF events = <<>> THEN Nil
    ELSE LET c == Head(events)
         IN  <<replay(Cargo_init(c.origin, c.destination, c.arrival_deadline),
                      Tail(events), t)>>

-----------------------------------------------------------------------------
(* The Cargo commands *)

Cargo_change_destination(obj, destination, t) ==
    trigger_event(obj, [type |-> "DestinationChanged", destination |-> destination], t)

Cargo_assign_route(obj, itinerary, t) ==
    trigger_event(obj, [type |-> "RouteAssigned", route |-> itinerary], t)

Cargo_register_handling_event(obj, voyage_number, location, handling_activity, t) ==
    trigger_event(obj, [type |-> "HandlingEventRegistered",
                        voyage_number |-> voyage_number,
                        location |-> location,
                        handling_activity |-> handling_activity], t)

-----------------------------------------------------------------------------
(* The BookingApplication *)

\* get_cargo: Nil stands for the raised "Cargo not found".
get_cargo(t) == get_instance_of(log, t)

\* The command raised before the cargo was found.
NotFound ==
    /\ outcome' = "failed"
    /\ cargo' = Nil
    /\ before' = Nil
    /\ UNCHANGED log

\* The rest of an application method once the command r has run on obj:
\* __save__ is reached only when the command returned.
Finish(obj, r) ==
    /\ before' = <<obj>>
    /\ cargo' = <<r.obj>>
    /\ outcome' = IF r.ok THEN "ok" ELSE "failed"
    /\ log' = IF r.ok THEN save(log, r.pending) ELSE log

book_new_cargo(origin, destination, arrival_deadline) ==
    /\ log = <<>>
    /\ log' = save(log, <<Created(origin, destination, arrival_deadline)>>)
    /\ cargo' = <<Cargo_init(origin, destination, arrival_deadline)>>
    /\ before' = Nil
    /\ outcome' = "ok"

\* change_destination without its __save__: the command runs, nothing is stored.
change_destination_unsaved(destination, t) ==
    LET found == get_cargo(t)
    IN  IF found = Nil THEN NotFound
        ELSE LET r == Cargo_change_destination(found[1], destination, t)
             IN  /\ before' = <<found[1]>>
                 /\ cargo' = <<r.obj>>
                 /\ outcome' = IF r.ok THEN "ok" ELSE "failed"
                 /\ log' = log

change_destination(destination, t) ==
    LET found == get_cargo(t)
    IN  IF found = Nil THEN NotFound
        ELSE Finish(found[1], Cargo_change_destination(found[1], destination, t))

assign_route(itinerary, t) ==
    LET found == get_cargo(t)
    IN  IF found = Nil THEN NotFound
        ELSE Finish(found[1], Cargo_assign_route(found[1], itinerary, t))

register_handling_event(voyage_number, location, handing_activity, t) ==
    LET found == get_cargo(t)
    IN  IF found = Nil THEN NotFound
        ELSE Finish(found[1],
                    Cargo_register_handling_event(found[1], voyage_number, location,
                                                  handing_activity, t))

-----------------------------------------------------------------------------
(* The inputs of the commands *)

Times == 0..MaxTime

\* The deadline of the booking: two weeks from its day.
Deadlines == {2 * Week}

BookOrigins == {"HONGKONG"}

BookDestinations == {"STOCKHOLM"}

NewDestinations == {"NEWYORK", "STOCKHOLM"}

Itineraries == {HONGKONG_STOCKHOLM, TOKYO_STOCKHOLM}

HandlingLocations == {"HONGKONG", "NEWYORK", "STOCKHOLM", "TOKYO"}

VoyageNumbers == {"V1", "V2"}

\* <<voyage number, location, activity>>: RECEIVE and CLAIM are reported
\* without a voyage, at the origin or the destination of the booking or
\* elsewhere; "CUSTOMS" is an activity the state machine does not know.
HandlingReports ==
    ({None} \X {"HONGKONG", "TOKYO"} \X {"RECEIVE"})
        \cup ({None} \X {"STOCKHOLM", "TOKYO"} \X {"CLAIM"})
        \cup (VoyageNumbers \X HandlingLocations \X {"LOAD", "UNLOAD"})
        \cup {<<None, "HONGKONG", "CUSTOMS">>}

-----------------------------------------------------------------------------
(* The system: clients issue commands, one at a time *)

\* The clients that call the application concurrently.
Clients == {"c1", "c2"}

\* A client outside any application call.
Idle ==
    [pc |-> "idle", command |-> <<>>, obj |-> Nil, pending |-> <<>>,
     result |-> "none", retry |-> FALSE]

Init ==
    /\ log = <<>>
    /\ cargo = Nil
    /\ before = Nil
    /\ outcome = "none"
    /\ session = [c \in Clients |-> Idle]
    /\ reply = Nil

Book ==
    /\ \E o \in BookOrigins, d \in BookDestinations, dl \in Deadlines :
          book_new_cargo(o, d, dl)
    /\ reply' = Nil
    /\ UNCHANGED session

ChangeDestination ==
    /\ Len(log) < MaxLog
    /\ \E d \in NewDestinations, t \in Times : change_destination(d, t)
    /\ reply' = Nil
    /\ UNCHANGED session

AssignRoute ==
    /\ Len(log) < MaxLog
    /\ \E it \in Itineraries, t \in Times : assign_route(it, t)
    /\ reply' = Nil
    /\ UNCHANGED session

RegisterHandlingEvent ==
    /\ Len(log) < MaxLog
    /\ \E h \in HandlingReports, t \in Times : register_handling_event(h[1], h[2], h[3], t)
    /\ reply' = Nil
    /\ UNCHANGED session

Next ==
    \/ Book
    \/ ChangeDestination
    \/ AssignRoute
    \/ RegisterHandlingEvent

Spec == Init /\ [][Next]_vars

-----------------------------------------------------------------------------
(* What the claims speak of *)

Booked == log # <<>>

\* The projection: the cargo as rebuilt from its stored events at time t.
Projection(t) == get_cargo(t)[1]

LastEvent == log[Len(log)]

\* The last command returned, and the event it appended is of this type.
Applied(type) == outcome = "ok" /\ Booked /\ LastEvent.type = type

\* The last command returned, and it was this handling activity.
Handled(activity) ==
    Applied("HandlingEventRegistered") /\ LastEvent.handling_activity = activity

-----------------------------------------------------------------------------
(* The scenario of test_scenario_cargo_from_hongkong_to_stockholm *)

\* request_possible_routes_for_cargo that asks for the routes from the origin,
\* wherever the cargo was last seen.
request_possible_routes_from_origin(t) ==
    LET found == get_cargo(t)
    IN  IF found = Nil THEN [ok |-> FALSE, routes |-> <<>>]
        ELSE LET c == found[1]
                 from_location == LocationValue(c.origin)
                 to_location == LocationValue(c.destination)
             IN  IF <<from_location, to_location>> \in DOMAIN REGISTERED_ROUTES
                   THEN [ok |-> TRUE,
                         routes |-> REGISTERED_ROUTES[<<from_location, to_location>>]]
                   ELSE [ok |-> FALSE, routes |-> <<>>]

\* request_possible_routes_for_cargo: the registered routes from the last
\* known location (or the origin) to the destination, or the raised exception.
request_possible_routes_for_cargo(t) ==
    LET found == get_cargo(t)
    IN  IF found = Nil THEN [ok |-> FALSE, routes |-> <<>>]
        ELSE LET c == found[1]
                 from_location ==
                     LocationValue(IF c.last_known_location # None
                                     THEN c.last_known_location ELSE c.origin)
                 to_location == LocationValue(c.destination)
             IN  IF <<from_location, to_location>> \in DOMAIN REGISTERED_ROUTES
                   THEN [ok |-> TRUE,
                         routes |-> REGISTERED_ROUTES[<<from_location, to_location>>]]
                   ELSE [ok |-> FALSE, routes |-> <<>>]

\* A client requests the possible routes: the call returns them ("routes") or
\* raises ("no_route"); the cargo read is dropped, nothing is saved.
RequestPossibleRoutes ==
    /\ Booked
    /\ \E t \in Times :
          LET r == request_possible_routes_for_cargo(t)
          IN  /\ before' = get_cargo(t)
              /\ cargo' = get_cargo(t)
              /\ outcome' = IF r.ok THEN "routes" ELSE "no_route"
              /\ reply' = r.routes
    /\ UNCHANGED <<log, session>>

NextRoutes ==
    \/ Book
    \/ ChangeDestination
    \/ AssignRoute
    \/ RegisterHandlingEvent
    \/ RequestPossibleRoutes

SpecRoutes == Init /\ [][NextRoutes]_vars

\* select_preferred_itinerary: an arbitrary one of the routes offered.
select_preferred_itinerary(routes) == { routes[i] : i \in 1..Len(routes) }

\* The handling reports of the scenario, by the number of events stored
\* before each: <<voyage number, location, activity>>.
ScenarioReports ==
    [k \in {2, 3, 4, 6, 7, 8, 9, 10} |->
        CASE k = 2  -> <<None, "HONGKONG", "RECEIVE">>
          [] k = 3  -> <<"V1", "HONGKONG", "LOAD">>
          [] k = 4  -> <<"V1", "TOKYO", "UNLOAD">>
          [] k = 6  -> <<"V3", "TOKYO", "LOAD">>
          [] k = 7  -> <<"V3", "HAMBURG", "UNLOAD">>
          [] k = 8  -> <<"V4", "HAMBURG", "LOAD">>
          [] k = 9  -> <<"V4", "STOCKHOLM", "UNLOAD">>
          [] k = 10 -> <<None, "STOCKHOLM", "CLAIM">>]

\* The events stored before the two routing steps of the scenario.
ScenarioRoutings == {1, 5}

\* The number of events the scenario stores.
ScenarioLength == 11

\* Reports sent in between the steps of the scenario, kept when rejected.
OtherReports ==
    {"V1", "V2", "V3", "V4"}
        \X {"HONGKONG", "NEWYORK", "TOKYO", "HAMBURG", "STOCKHOLM"}
        \X {"LOAD", "UNLOAD"}

\* Use case 1: booking.
ScenarioBook ==
    /\ \E dl \in Deadlines : book_new_cargo("HONGKONG", "STOCKHOLM", dl)
    /\ reply' = Nil
    /\ UNCHANGED session

\* Use case 2, and the reroute: the possible routes are requested, one is
\* selected and assigned.
ScenarioRoute ==
    /\ Len(log) \in ScenarioRoutings
    /\ \E t \in Times :
          LET possible == request_possible_routes_for_cargo(t)
          IN  /\ possible.ok
              /\ \E it \in select_preferred_itinerary(possible.routes) : assign_route(it, t)
    /\ reply' = Nil
    /\ UNCHANGED session

\* Use case 3: handling.
ScenarioHandle ==
    /\ Len(log) \in DOMAIN ScenarioReports
    /\ \E t \in Times :
          LET h == ScenarioReports[Len(log)]
          IN  register_handling_event(h[1], h[2], h[3], t)
    /\ reply' = Nil
    /\ UNCHANGED session

\* A report that is rejected, at any time after the booking.
ScenarioRejected ==
    /\ Booked
    /\ \E h \in OtherReports, t \in Times :
          /\ register_handling_event(h[1], h[2], h[3], t)
          /\ outcome' = "failed"
    /\ reply' = Nil
    /\ UNCHANGED session

NextScenario ==
    \/ ScenarioBook
    \/ ScenarioRoute
    \/ ScenarioHandle
    \/ ScenarioRejected

SpecScenario == Init /\ [][NextScenario]_vars

-----------------------------------------------------------------------------
(* Concurrent clients: an application method is a read of the cargo, the   *)
(* command on the object read, and the save of the pending event; the      *)
(* methods of two clients interleave between these steps.                  *)

\* An append that stores the event whatever the stored events are.
append_unchecked(events, event) ==
    [ok |-> TRUE, events |-> Append(events, event)]

\* The event store's append: the event is stored at its version, which must
\* be the number of the events stored; otherwise nothing is stored and the
\* append is rejected with a concurrency conflict.
append(events, event) ==
    IF event.originator_version = Len(events)
        THEN [ok |-> TRUE, events |-> Append(events, event)]
        ELSE [ok |-> FALSE, events |-> events]

NoCommand == [name |-> "none", destination |-> None, itinerary |-> Nil, report |-> Nil]

\* The application calls the concurrent clients make.
ConcurrentReports == {<<"V1", "HONGKONG", "LOAD">>}

ConcurrentCommands ==
    {[NoCommand EXCEPT !.name = "change_destination", !.destination = d] :
        d \in {"NEWYORK"}}
    \cup {[NoCommand EXCEPT !.name = "assign_route", !.itinerary = <<it>>] :
        it \in Itineraries}
    \cup {[NoCommand EXCEPT !.name = "register_handling_event", !.report = h] :
        h \in ConcurrentReports}

\* The command of an application method, on the object the method has read.
Run(obj, command, t) ==
    IF command.name = "change_destination"
        THEN Cargo_change_destination(obj, command.destination, t)
    ELSE IF command.name = "assign_route"
        THEN Cargo_assign_route(obj, command.itinerary[1], t)
    ELSE Cargo_register_handling_event(obj, command.report[1], command.report[2],
                                       command.report[3], t)

\* The first statement of an application method: cargo = self.get_cargo(...).
Read(c, command, t, retry) ==
    /\ Booked
    /\ Len(log) < MaxLog
    /\ session[c].pc = "idle"
    /\ session' = [session EXCEPT ![c] =
            [pc |-> "read", command |-> command, obj |-> get_cargo(t),
             pending |-> <<>>, result |-> "none", retry |-> retry]]
    /\ UNCHANGED <<log, cargo, before, outcome, reply>>

\* A client calls an application method.
ClientCall ==
    \E c \in Clients, command \in ConcurrentCommands, t \in Times :
        /\ session[c].result # "conflict"
        /\ Read(c, command, t, FALSE)

\* A client whose call ended in a concurrency conflict calls the method again.
ClientRetry ==
    \E c \in Clients, t \in Times :
        /\ session[c].result = "conflict"
        /\ Read(c, session[c].command, t, TRUE)

\* The second statement: the command on the object read.  When it raises,
\* the method ends there.
ClientCommand ==
    \E c \in Clients, t \in Times :
        /\ session[c].pc = "read"
        /\ LET s == session[c]
               r == Run(s.obj[1], s.command, t)
           IN  session' = [session EXCEPT ![c] =
                   IF r.ok
                       THEN [s EXCEPT !.pc = "computed", !.pending = r.pending]
                       ELSE [Idle EXCEPT !.result = "failed", !.retry = s.retry]]
        /\ UNCHANGED <<log, cargo, before, outcome, reply>>

\* The third statement: cargo.__save__().  A rejected append raises the
\* conflict to the client, which keeps the call to make it again.
ClientSave ==
    \E c \in Clients :
        /\ session[c].pc = "computed"
        /\ LET s == session[c]
               a == append(log, s.pending[1])
           IN  /\ log' = a.events
               /\ session' = [session EXCEPT ![c] =
                       IF a.ok
                           THEN [Idle EXCEPT !.result = "ok", !.retry = s.retry]
                           ELSE [Idle EXCEPT !.result = "conflict",
                                             !.command = s.command,
                                             !.retry = s.retry]]
        /\ UNCHANGED <<cargo, before, outcome, reply>>

NextConcurrent ==
    \/ Book
    \/ ClientCall
    \/ ClientRetry
    \/ ClientCommand
    \/ ClientSave

SpecConcurrent == Init /\ [][NextConcurrent]_vars

-----------------------------------------------------------------------------
(* On-route progress: a cargo is booked, assigned an itinerary of contiguous *)
(* legs with distinct voyage numbers from its origin to its destination,     *)
(* and every handling event reported is the next expected activity.          *)

ProgressLocations == {"HONGKONG", "NEWYORK", "STOCKHOLM"}

\* The voyage number of the i-th leg of an itinerary: distinct per leg.
ProgressVoyages == <<"V1", "V2", "V3", "V4">>

\* The itinerary along the path p of locations: leg i goes from p[i] to p[i + 1].
ItineraryAlong(p) ==
    Itinerary(LocationValue(p[1]), LocationValue(p[Len(p)]),
              [i \in 1..(Len(p) - 1) |->
                  Leg(LocationValue(p[i]), LocationValue(p[i + 1]), ProgressVoyages[i])])

\* Every itinerary of one to MaxLegs contiguous legs between these locations.
ProgressItineraries ==
    UNION { { ItineraryAlong(p) : p \in [1..(n + 1) -> ProgressLocations] } :
            n \in 1..MaxLegs }

\* The cargo is booked from the origin to the destination of an itinerary.
ProgressBook ==
    /\ \E it \in ProgressItineraries, dl \in Deadlines :
          book_new_cargo(LocationByName(it.origin), LocationByName(it.destination), dl)
    /\ reply' = Nil
    /\ UNCHANGED session

\* It is assigned an itinerary from its origin to its destination.
ProgressRoute ==
    /\ Len(log) = 1
    /\ \E it \in ProgressItineraries, t \in Times :
          /\ it.origin = LocationValue(log[1].origin)
          /\ it.destination = LocationValue(log[1].destination)
          /\ assign_route(it, t)
    /\ reply' = Nil
    /\ UNCHANGED session

\* The handling event reported is the next expected activity of the stored
\* cargo: same activity, location and, where it has one, voyage number.
ProgressHandle ==
    /\ Len(log) >= 2
    /\ \E t \in Times :
          LET expected == Projection(t).next_expected_activity
          IN  /\ expected # Nil
              /\ register_handling_event(
                     IF Len(expected) = 3 THEN expected[3] ELSE None,
                     expected[2], expected[1], t)
    /\ reply' = Nil
    /\ UNCHANGED session

NextProgress ==
    \/ ProgressBook
    \/ ProgressRoute
    \/ ProgressHandle

SpecProgress == Init /\ [][NextProgress]_vars

-----------------------------------------------------------------------------
(* The claims *)

\* C1: in every reachable state, a misdirected cargo has no next expected
\* activity (stated of the projection, whenever it is rebuilt).
C1_MisdirectedHasNoNextActivity ==
    \A t \in Times :
        Booked /\ Projection(t).is_misdirected
            => Projection(t).next_expected_activity = Nil

\* C2: in every reachable state, a claimed cargo has no next expected activity.
C2_ClaimedHasNoNextActivity ==
    \A t \in Times :
        Booked /\ Projection(t).transport_status = "CLAIMED"
            => Projection(t).next_expected_activity = Nil

\* C3: in every reachable state, a cargo with a current voyage number is
\* on board a carrier.
C3_VoyageImpliesOnboard ==
    \A t \in Times :
        Booked /\ Projection(t).current_voyage_number # None
            => Projection(t).transport_status = "ONBOARD_CARRIER"

\* C4: no partial mutation: a command that fails leaves the Cargo object it
\* ran on exactly as it was before the command, and the log as it was.
C4_NoPartialMutation ==
    [][outcome' = "failed" => (cargo' = before' /\ log' = log)]_vars

\* C5: claim terminality: when the log holds a CLAIM event, a LOAD or UNLOAD
\* registered after it leaves no next expected activity.
C5_ClaimTerminality ==
    ( /\ Handled("LOAD") \/ Handled("UNLOAD")
      /\ \E i \in 1..(Len(log) - 1) :
            /\ log[i].type = "HandlingEventRegistered"
            /\ log[i].handling_activity = "CLAIM" )
        => cargo[1].next_expected_activity = Nil

\* What the test asserts of the cargo details once k events are stored.
ScenarioExpected(k, c) ==
    CASE k = 1  -> /\ c.transport_status = "NOT_RECEIVED"
                   /\ c.routing_status = "NOT_ROUTED"
                   /\ c.is_misdirected = FALSE
                   /\ c.estimated_time_of_arrival = Nil
                   /\ c.next_expected_activity = Nil
      [] k = 2  -> /\ c.transport_status = "NOT_RECEIVED"
                   /\ c.routing_status = "ROUTED"
                   /\ c.is_misdirected = FALSE
                   /\ c.estimated_time_of_arrival # Nil
                   /\ c.next_expected_activity = <<"RECEIVE", "HONGKONG">>
                   /\ c.route = <<HONGKONG_STOCKHOLM>>
      [] k = 3  -> /\ c.transport_status = "IN_PORT"
                   /\ c.last_known_location = "HONGKONG"
                   /\ c.next_expected_activity = <<"LOAD", "HONGKONG", "V1">>
      [] k = 4  -> /\ c.current_voyage_number = "V1"
                   /\ c.last_known_location = "HONGKONG"
                   /\ c.transport_status = "ONBOARD_CARRIER"
                   /\ c.next_expected_activity = <<"UNLOAD", "NEWYORK", "V1">>
      [] k = 5  -> /\ c.current_voyage_number = None
                   /\ c.last_known_location = "TOKYO"
                   /\ c.transport_status = "IN_PORT"
                   /\ c.is_misdirected = TRUE
                   /\ c.next_expected_activity = Nil
      [] k = 6  -> /\ c.route = <<TOKYO_STOCKHOLM>>
      [] k = 7  -> /\ c.current_voyage_number = "V3"
                   /\ c.last_known_location = "TOKYO"
                   /\ c.transport_status = "ONBOARD_CARRIER"
                   /\ c.is_misdirected = FALSE
                   /\ c.next_expected_activity = <<"UNLOAD", "HAMBURG", "V3">>
      [] k = 8  -> /\ c.current_voyage_number = None
                   /\ c.last_known_location = "HAMBURG"
                   /\ c.transport_status = "IN_PORT"
                   /\ c.is_misdirected = FALSE
                   /\ c.next_expected_activity = <<"LOAD", "HAMBURG", "V4">>
      [] k = 9  -> /\ c.current_voyage_number = "V4"
                   /\ c.last_known_location = "HAMBURG"
                   /\ c.transport_status = "ONBOARD_CARRIER"
                   /\ c.is_misdirected = FALSE
                   /\ c.next_expected_activity = <<"UNLOAD", "STOCKHOLM", "V4">>
      [] k = 10 -> /\ c.current_voyage_number = None
                   /\ c.last_known_location = "STOCKHOLM"
                   /\ c.transport_status = "IN_PORT"
                   /\ c.is_misdirected = FALSE
                   /\ c.next_expected_activity = <<"CLAIM", "STOCKHOLM">>
      [] k = 11 -> /\ c.current_voyage_number = None
                   /\ c.last_known_location = "STOCKHOLM"
                   /\ c.transport_status = "CLAIMED"
                   /\ c.is_misdirected = FALSE
                   /\ c.next_expected_activity = Nil
      [] OTHER  -> FALSE

\* The next command of the scenario returns, run at time t on the stored cargo.
ScenarioNextSucceeds(t) ==
    CASE Len(log) \in ScenarioRoutings ->
            /\ request_possible_routes_for_cargo(t).ok
            /\ request_possible_routes_for_cargo(t).routes # <<>>
            /\ \A it \in select_preferred_itinerary(request_possible_routes_for_cargo(t).routes) :
                    Cargo_assign_route(Projection(t), it, t).ok
      [] Len(log) \in DOMAIN ScenarioReports ->
            LET h == ScenarioReports[Len(log)]
            IN  Cargo_register_handling_event(Projection(t), h[1], h[2], h[3], t).ok
      [] OTHER -> TRUE

\* C6: in the scenario every command succeeds, and after each of them the
\* cargo details are the ones the test asserts: of the projection rebuilt at
\* any time, and of the object the command ran on.
C6_Scenario ==
    /\ Len(log) <= ScenarioLength
    /\ \A t \in Times :
          Booked => /\ ScenarioNextSucceeds(t)
                    /\ ScenarioExpected(Len(log), Projection(t))
    /\ (outcome = "ok") => ScenarioExpected(Len(log), cargo[1])

\* The scenario has run to its end: the cargo was claimed in Stockholm.
C6_Witness ==
    /\ Len(log) = ScenarioLength
    /\ Handled("CLAIM")
    /\ cargo[1].transport_status = "CLAIMED"
    /\ \E i \in 1..Len(log) : log[i].type = "RouteAssigned" /\ log[i].route = TOKYO_STOCKHOLM

\* C7: assign_route succeeds in every state of the cargo, and the command that
\* appended a RouteAssigned event has set route, routing status, estimated
\* time of arrival, next expected activity (RECEIVE at the origin) and
\* cleared the misdirection, leaving transport status, last known location,
\* current voyage number, origin and destination as they were.
C7_AssignRoute ==
    /\ Booked =>
            \A t \in Times :
                LET p == Projection(t)
                IN  \A it \in Itineraries : Cargo_assign_route(p, it, t).ok
    /\ Applied("RouteAssigned") =>
            LET c == cargo[1]
                b == before[1]
            IN  /\ c.route = <<LastEvent.route>>
                /\ c.routing_status = "ROUTED"
                /\ c.estimated_time_of_arrival # Nil
                /\ c.next_expected_activity = <<"RECEIVE", b.origin>>
                /\ c.is_misdirected = FALSE
                /\ c.transport_status = b.transport_status
                /\ c.last_known_location = b.last_known_location
                /\ c.current_voyage_number = b.current_voyage_number
                /\ c.origin = b.origin
                /\ c.destination = b.destination

\* A route was assigned to a misdirected cargo.
C7_Witness ==
    Applied("RouteAssigned") /\ before[1].is_misdirected /\ ~cargo[1].is_misdirected

\* C8: on a cargo without a route every handling report fails, appends no
\* event and leaves the object as it was; and in the log no
\* HandlingEventRegistered event comes before the first RouteAssigned event.
C8_NoHandlingBeforeRoute ==
    /\ Booked =>
            \A t \in Times :
                LET p == Projection(t)
                IN  p.route = Nil =>
                        \A h \in HandlingReports :
                            LET r == Cargo_register_handling_event(p, h[1], h[2], h[3], t)
                            IN  ~r.ok /\ r.pending = <<>> /\ r.obj = p
    /\ (outcome = "failed" /\ before # Nil /\ before[1].route = Nil) => cargo = before
    /\ \A i \in 1..Len(log) :
            log[i].type = "HandlingEventRegistered" =>
                \E j \in 1..(i - 1) : log[j].type = "RouteAssigned"

\* A handling report was rejected on a booked cargo without a route.
C8_Witness ==
    outcome = "failed" /\ before # Nil /\ before[1].route = Nil /\ Len(log) >= 2

\* C9: replay determinism: the stored events rebuild the same projection at
\* any two replay times, the estimated time of arrival included, and that
\* projection is the object held by the command that stored them.
C9_ReplayDeterminism ==
    /\ \A t1, t2 \in Times : get_instance_of(log, t1) = get_instance_of(log, t2)
    /\ outcome = "ok" => \A t \in Times : get_instance_of(log, t) = cargo

\* C10: the log is append-only with gap-free versions from 0: every step
\* keeps the earlier log as a prefix, a failed command appends nothing, a
\* successful one appends exactly one event whose version is the previous
\* length of the log, and the first event is the booking.
C10_VersionMonotonicity ==
    [][ /\ Len(log') >= Len(log)
        /\ SubSeq(log', 1, Len(log)) = log
        /\ outcome' = "failed" => log' = log
        /\ outcome' = "ok" =>
              /\ Len(log') = Len(log) + 1
              /\ log'[Len(log')].originator_version = Len(log)
        /\ \A i \in 1..Len(log') : log'[i].originator_version = i - 1
        /\ log' # <<>> => log'[1].type = "Created" ]_vars

\* A command failed on a cargo with three stored events, having changed the object.
C10_Witness ==
    outcome = "failed" /\ Len(log) >= 3 /\ cargo # before


\* What a step that ends a client's save says of optimistic concurrency: the
\* save ends in "ok" or in a conflict; on "ok" the client's event is appended
\* at the version that follows the one the client read, which is the number
\* of the events stored; on a conflict nothing is stored and an event of
\* another call already holds that version.
SaveIsOptimistic(c) ==
    LET s == session[c]
        v == s.obj[1].version + 1
    IN  (s.pc = "computed" /\ session'[c].pc = "idle") =>
            /\ session'[c].result \in {"ok", "conflict"}
            /\ s.pending[1].originator_version = v
            /\ session'[c].result = "ok" =>
                  (Len(log) = v /\ log' = Append(log, s.pending[1]))
            /\ session'[c].result = "conflict" =>
                  (Len(log) > v /\ log' = log)

\* The stored events hold exactly one event per version.
OneEventPerVersion == \A i \in 1..Len(log) : log[i].originator_version = i - 1

\* Client c ends an application call it made again after a conflict, and no
\* event was stored since it read the cargo again.
RetryEnds(c) ==
    /\ session[c].retry
    /\ session[c].pc \in {"read", "computed"}
    /\ session'[c].pc = "idle"
    /\ Len(log) = session[c].obj[1].version + 1

\* C11 as stated: of two calls that read the cargo at the same version at
\* most one appends its event at that version, the other ends in a
\* concurrency conflict and appends nothing, the stored events hold one
\* event per version, and the call made again after a conflict succeeds at
\* the next version.
C11_RetrySucceeds ==
    [][/\ OneEventPerVersion'
       /\ \A c \in Clients :
             /\ SaveIsOptimistic(c)
             /\ RetryEnds(c) =>
                   (session'[c].result = "ok" /\ Len(log') = Len(log) + 1)]_vars

\* C11, amended: as above, but the call made again after a conflict never
\* ends in a conflict when no event was stored since it read the cargo
\* again, and succeeds at the next version when its recomputed command is
\* accepted by the cargo it read again; the recomputed command may be
\* rejected by that cargo.
C11_OptimisticConcurrency ==
    [][/\ OneEventPerVersion'
       /\ \A c \in Clients :
             /\ SaveIsOptimistic(c)
             /\ RetryEnds(c) =>
                   /\ session'[c].result \in {"ok", "failed"}
                   /\ session[c].pc = "computed" =>
                         (session'[c].result = "ok" /\ Len(log') = Len(log) + 1)
                   /\ session'[c].result = "failed" =>
                         (session[c].pc = "read" /\ log' = log)]_vars

\* A call that lost to another call's event was made again and succeeded.
C11_Witness ==
    \E c \in Clients : session[c].retry /\ session[c].result = "ok"

\* C12: change_destination(d) returns on every cargo an application method
\* reads, whatever its transport and routing status, and the object it
\* leaves differs from the one read in the destination, which is d, and in
\* the version only: origin, arrival deadline, transport status, routing
\* status, misdirection, estimated time of arrival, route, next expected
\* activity, last known location and current voyage number are unchanged.
C12_ChangeDestination ==
    /\ before # Nil =>
          \A d \in NewDestinations, t \in Times :
              LET r == Cargo_change_destination(before[1], d, t)
              IN  /\ r.ok
                  /\ r.obj = [before[1] EXCEPT !.destination = d, !.version = @ + 1]
    /\ Applied("DestinationChanged") =>
          cargo[1] = [before[1] EXCEPT !.destination = LastEvent.destination,
                                       !.version = @ + 1]

\* The destination of a routed cargo on board a carrier, with a next expected
\* activity, was changed.
C12_Witness ==
    /\ Applied("DestinationChanged")
    /\ before[1].routing_status = "ROUTED"
    /\ before[1].transport_status = "ONBOARD_CARRIER"
    /\ before[1].next_expected_activity # Nil
    /\ cargo[1].destination # before[1].destination

\* The object, when not routed, is as the booking made it, but for its
\* destination and its version.
AsBooked(o, booking) ==
    (o # Nil /\ o[1].routing_status = "NOT_ROUTED") =>
        /\ o[1].origin = booking.origin
        /\ o[1].arrival_deadline = booking.arrival_deadline
        /\ o[1].transport_status = "NOT_RECEIVED"
        /\ o[1].is_misdirected = FALSE
        /\ o[1].estimated_time_of_arrival = Nil
        /\ o[1].next_expected_activity = Nil
        /\ o[1].route = Nil
        /\ o[1].last_known_location = None
        /\ o[1].current_voyage_number = None

Routed(o) == o # Nil /\ o[1].routing_status = "ROUTED"

\* C13: a newly booked cargo is NOT_RECEIVED, NOT_ROUTED, not misdirected,
\* with no estimated time of arrival, next expected activity, route, last
\* known location or current voyage number; so is every cargo that is
\* NOT_ROUTED, as an application method reads it and as a command leaves it,
\* whether the command returned or raised; and a ROUTED cargo stays ROUTED.
C13_NotRoutedIsAsBooked ==
    [][/\ AsBooked(cargo', log'[1])
       /\ AsBooked(before', log'[1])
       /\ (outcome' = "ok" /\ Len(log') = 1) =>
             /\ cargo'[1].routing_status = "NOT_ROUTED"
             /\ cargo'[1].destination = log'[1].destination
       /\ Routed(cargo) => Routed(cargo')
       /\ Routed(before) => (Routed(before') /\ Routed(cargo'))]_vars

\* A handling event was rejected for a cargo that is not routed and whose
\* destination was changed since the booking.
C13_Witness ==
    /\ outcome = "failed"
    /\ Booked
    /\ cargo[1].routing_status = "NOT_ROUTED"
    /\ cargo[1].destination # log[1].destination
    /\ cargo[1].version = 1

\* The itinerary of the most recent RouteAssigned event of the events, if any.
LastRouteAssigned(events) ==
    LET S == {i \in 1..Len(events) : events[i].type = "RouteAssigned"}
    IN  IF S = {} THEN Nil
        ELSE <<events[CHOOSE i \in S : \A j \in S : j <= i].route>>

\* The events an application method read the cargo from, in the state its
\* command left: all but the one the command appended.
EventsRead == IF outcome = "ok" THEN SubSeq(log, 1, Len(log) - 1) ELSE log

\* C14: a ROUTED cargo has a route, and the route of the cargo is the
\* itinerary of the most recent RouteAssigned event of its stored events (none
\* when there is no such event), as an application method reads the cargo and
\* as a command leaves it.
C14_RouteIsLastAssigned ==
    /\ cargo # Nil =>
          /\ cargo[1].route = LastRouteAssigned(log)
          /\ cargo[1].routing_status = "ROUTED" => cargo[1].route # Nil
    /\ before # Nil =>
          /\ before[1].route = LastRouteAssigned(EventsRead)
          /\ before[1].routing_status = "ROUTED" => before[1].route # Nil

\* A routed cargo was assigned another route, after a handling event.
C14_Witness ==
    /\ Applied("RouteAssigned")
    /\ before[1].route # Nil
    /\ before[1].route # cargo[1].route
    /\ before[1].last_known_location # None

\* The last call was a request for the possible routes.
Requested == outcome \in {"routes", "no_route"}

\* What a request for the registered routes from location l to the cargo's
\* destination answers: the itineraries registered for the pair, or the
\* failure when, and only when, nothing is registered for it.
AnswersFor(l) ==
    LET pair == <<LocationValue(l), LocationValue(cargo[1].destination)>>
    IN  IF pair \in DOMAIN REGISTERED_ROUTES
          THEN outcome = "routes" /\ reply = REGISTERED_ROUTES[pair]
          ELSE outcome = "no_route"

\* C15 as stated: the request answers for the pair of the cargo's origin and
\* destination in every state of the cargo, and changes nothing stored.
C15_RoutesFromOrigin ==
    [][Requested' => (AnswersFor(cargo[1].origin)' /\ log' = log)]_vars

\* C15, amended: the request answers for the pair of the cargo's last known
\* location, once a handling event has set it, and otherwise of its origin,
\* with the cargo's destination; it changes nothing stored, and the cargo it
\* read is the one any other call reads.
C15_RoutesFromLastKnownLocation ==
    [][Requested' =>
          /\ AnswersFor(IF cargo[1].last_known_location # None
                          THEN cargo[1].last_known_location
                          ELSE cargo[1].origin)'
          /\ log' = log
          /\ \E t \in Times : cargo' = get_instance_of(log, t)]_vars

\* Routes were returned for a cargo last seen away from its origin.
C15_Witness ==
    /\ outcome = "routes"
    /\ cargo[1].last_known_location \notin {None, cargo[1].origin}
    /\ reply # <<>>

\* The last command was a successful UNLOAD at a location that some leg of
\* the route ends at and that is not the destination of the cargo.
UnloadedOnRoute ==
    /\ Handled("UNLOAD")
    /\ LastEvent.location # before[1].destination
    /\ \E i \in 1..Len(before[1].route[1].legs) :
          before[1].route[1].legs[i].destination = LocationValue(LastEvent.location)

\* C16: every successful UNLOAD at a location L that is the destination of
\* some leg of the route and is not the destination of the cargo sets the next
\* expected activity to (LOAD, L, v), v being the voyage number of the leg
\* that follows the leg of the event's voyage number, whose origin is L, and
\* leaves the misdirection as it was; with a voyage number of no leg, or of
\* the last leg, the command does not succeed.
C16_UnloadOnRoute ==
    UnloadedOnRoute =>
        LET legs == before[1].route[1].legs
        IN  /\ \E i \in 1..(Len(legs) - 1) :
                  /\ legs[i].voyage_number = LastEvent.voyage_number
                  /\ legs[i + 1].origin = LocationValue(LastEvent.location)
                  /\ cargo[1].next_expected_activity =
                         <<"LOAD", LastEvent.location, legs[i + 1].voyage_number>>
            /\ cargo[1].is_misdirected = before[1].is_misdirected

\* Location l is on the itinerary: the origin or the destination of a leg.
OnItinerary(itinerary, l) ==
    \E i \in 1..Len(itinerary.legs) :
        \/ itinerary.legs[i].origin = LocationValue(l)
        \/ itinerary.legs[i].destination = LocationValue(l)

\* C17: a successful UNLOAD marks the cargo misdirected, with no next
\* expected activity, when its location is neither the destination of the
\* cargo nor on the assigned itinerary, and only then: an UNLOAD at the
\* destination or at a location of the itinerary leaves the misdirection as
\* it was.
C17_OffRouteDetection ==
    Handled("UNLOAD") =>
        IF /\ LastEvent.location # before[1].destination
           /\ ~OnItinerary(before[1].route[1], LastEvent.location)
          THEN cargo[1].is_misdirected /\ cargo[1].next_expected_activity = Nil
          ELSE cargo[1].is_misdirected = before[1].is_misdirected

\* The legs of the itinerary that leave location l on voyage v.
LegsFrom(itinerary, l, v) ==
    { i \in 1..Len(itinerary.legs) :
        /\ itinerary.legs[i].origin = LocationValue(l)
        /\ itinerary.legs[i].voyage_number = v }

\* What C18 says of the LOAD r of voyage v at location l on the cargo o.
LoadAsClaimed(o, v, l, r) ==
    LET S == LegsFrom(o.route[1], l, v)
    IN  /\ r.ok <=> S # {}
        /\ r.ok =>
              /\ r.obj.transport_status = "ONBOARD_CARRIER"
              /\ r.obj.current_voyage_number = v
              /\ \E i \in S :
                    r.obj.next_expected_activity =
                        <<"UNLOAD", LocationByName(o.route[1].legs[i].destination), v>>

\* C18: on every routed cargo an application method reads, LOAD(v, l)
\* succeeds exactly when the route has a leg of origin l and voyage number v;
\* it then leaves the cargo ONBOARD_CARRIER, on voyage v, expecting the UNLOAD
\* of voyage v at that leg's destination; otherwise the command fails.
C18_Load ==
    /\ (before # Nil /\ before[1].route # Nil) =>
          \A v \in VoyageNumbers, l \in HandlingLocations, t \in Times :
              LoadAsClaimed(before[1], v, l,
                            Cargo_register_handling_event(before[1], v, l, "LOAD", t))
    /\ Handled("LOAD") =>
          LoadAsClaimed(before[1], LastEvent.voyage_number, LastEvent.location,
                        Returned(cargo[1]))

\* A LOAD onto the second leg of the route succeeded.
C18_Witness ==
    /\ Handled("LOAD")
    /\ cargo[1].current_voyage_number = "V2"
    /\ cargo[1].next_expected_activity = <<"UNLOAD", "STOCKHOLM", "V2">>

\* What C19 says of the UNLOAD r at location l on the cargo o.
UnloadAsClaimed(o, l, r) ==
    r.ok =>
        /\ r.obj.current_voyage_number = None
        /\ r.obj.last_known_location = l
        /\ r.obj.transport_status = "IN_PORT"
        /\ l = o.destination => r.obj.next_expected_activity = <<"CLAIM", l>>

\* C19: every successful UNLOAD at a location L leaves the cargo on no
\* voyage, last known at L and IN_PORT; when L is the destination the cargo
\* has at that time, the CLAIM at L is expected next, whatever the event's
\* voyage number and whether or not L is on the route.
C19_Unload ==
    /\ (before # Nil /\ before[1].route # Nil) =>
          \A v \in VoyageNumbers, l \in HandlingLocations, t \in Times :
              UnloadAsClaimed(before[1], l,
                              Cargo_register_handling_event(before[1], v, l, "UNLOAD", t))
    /\ Handled("UNLOAD") =>
          UnloadAsClaimed(before[1], LastEvent.location, Returned(cargo[1]))

\* An UNLOAD at the destination the cargo was given after its booking, which
\* is not on its route, succeeded.
C19_Witness ==
    /\ Handled("UNLOAD")
    /\ LastEvent.location = cargo[1].destination
    /\ cargo[1].destination # log[1].destination
    /\ ~OnItinerary(cargo[1].route[1], LastEvent.location)
    /\ cargo[1].next_expected_activity = <<"CLAIM", LastEvent.location>>

\* What C20 says of the RECEIVE r at location l on the cargo o.
ReceiveAsClaimed(o, l, r) ==
    /\ r.ok
    /\ r.obj.transport_status = "IN_PORT"
    /\ r.obj.last_known_location = l
    /\ r.obj.next_expected_activity = <<"LOAD", l, o.route[1].legs[1].voyage_number>>
    /\ r.obj.current_voyage_number = o.current_voyage_number
    /\ r.obj.is_misdirected = o.is_misdirected
    /\ r.obj.route = o.route
    /\ r.obj.routing_status = o.routing_status
    /\ r.obj.destination = o.destination

\* C20: on every routed cargo an application method reads, whatever its
\* transport status, RECEIVE at a location L leaves the cargo IN_PORT, last
\* known at L, expecting the LOAD at L onto the voyage of the first leg of
\* its route, with its current voyage number, misdirection, route, routing
\* status and destination as they were.
C20_Receive ==
    /\ (before # Nil /\ before[1].route # Nil) =>
          \A l \in HandlingLocations, t \in Times :
              ReceiveAsClaimed(before[1], l,
                               Cargo_register_handling_event(before[1], None, l, "RECEIVE", t))
    /\ Handled("RECEIVE") =>
          ReceiveAsClaimed(before[1], LastEvent.location, Returned(cargo[1]))

\* A RECEIVE of a cargo on board a carrier succeeded.
C20_Witness ==
    /\ Handled("RECEIVE")
    /\ before[1].transport_status = "ONBOARD_CARRIER"
    /\ cargo[1].current_voyage_number # None
    /\ cargo[1].transport_status = "IN_PORT"

\* The object r differs from the object o in none of the fields C21 names.
SameItinerary(o, r) ==
    /\ r.last_known_location = o.last_known_location
    /\ r.is_misdirected = o.is_misdirected
    /\ r.route = o.route
    /\ r.routing_status = o.routing_status
    /\ r.origin = o.origin
    /\ r.destination = o.destination

\* C21: a LOAD or a CLAIM leaves the last known location, the misdirection,
\* the route, the routing status, the origin and the destination of the
\* cargo as they were, on every routed cargo an application method reads and
\* for every stored LOAD and CLAIM; a command that returned has changed the
\* last known location only if it was a RECEIVE or an UNLOAD, has marked the
\* cargo misdirected only if it was an UNLOAD, and has lifted the
\* misdirection only if it was an assign_route.
C21_LoadAndClaimFrame ==
    /\ (before # Nil /\ before[1].route # Nil) =>
          \A v \in VoyageNumbers, l \in HandlingLocations, t \in Times :
              /\ SameItinerary(before[1],
                     Cargo_register_handling_event(before[1], v, l, "LOAD", t).obj)
              /\ SameItinerary(before[1],
                     Cargo_register_handling_event(before[1], None, l, "CLAIM", t).obj)
    /\ (Handled("LOAD") \/ Handled("CLAIM")) => SameItinerary(before[1], cargo[1])
    /\ (outcome = "ok" /\ before # Nil) =>
          /\ cargo[1].last_known_location # before[1].last_known_location =>
                (Handled("RECEIVE") \/ Handled("UNLOAD"))
          /\ (cargo[1].is_misdirected /\ ~before[1].is_misdirected) =>
                Handled("UNLOAD")
          /\ (~cargo[1].is_misdirected /\ before[1].is_misdirected) =>
                Applied("RouteAssigned")

\* A misdirected cargo was claimed at a location other than its last known
\* one, and stays misdirected and last known where it was.
C21_Witness ==
    /\ Handled("CLAIM")
    /\ before[1].is_misdirected
    /\ before[1].last_known_location \notin {None, LastEvent.location}
    /\ cargo[1].is_misdirected
    /\ cargo[1].last_known_location = before[1].last_known_location

\* The itinerary has contiguous, non-empty legs with pairwise distinct voyage
\* numbers, from the origin to the destination of the cargo o.
WellFormed(it, o) ==
    LET legs == it.legs
    IN  /\ Len(legs) >= 1
        /\ legs[1].origin = it.origin
        /\ legs[Len(legs)].destination = it.destination
        /\ \A i \in 1..(Len(legs) - 1) : legs[i].destination = legs[i + 1].origin
        /\ \A i, j \in 1..Len(legs) :
              i # j => legs[i].voyage_number # legs[j].voyage_number
        /\ it.origin = LocationValue(o.origin)
        /\ it.destination = LocationValue(o.destination)

\* The activity expected along the itinerary once k handling events are
\* stored: RECEIVE at the origin, LOAD and UNLOAD of each leg in order, CLAIM
\* at the destination, then none.
ExpectedAlong(it, k) ==
    LET legs == it.legs
        n == Len(legs)
        i == (k + 1) \div 2
    IN  IF k = 0 THEN <<"RECEIVE", LocationByName(it.origin)>>
        ELSE IF k = 2 * n + 1 THEN <<"CLAIM", LocationByName(it.destination)>>
        ELSE IF k >= 2 * n + 2 THEN Nil
        ELSE IF k % 2 = 1
          THEN <<"LOAD", LocationByName(legs[i].origin), legs[i].voyage_number>>
          ELSE <<"UNLOAD", LocationByName(legs[i].destination), legs[i].voyage_number>>

\* The cargo, with k handling events stored since its route was assigned, is
\* where the itinerary has it: the last command returned, the cargo is not
\* misdirected, expects the activity of the itinerary, and is CLAIMED exactly
\* after 2 + 2 * |legs| handling events, which are the last.
OnRoute(it) ==
    LET k == Len(log) - 2
        n == Len(it.legs)
    IN  /\ outcome = "ok"
        /\ k <= 2 * n + 2
        /\ ~cargo[1].is_misdirected
        /\ cargo[1].next_expected_activity = ExpectedAlong(it, k)
        /\ cargo[1].transport_status = "CLAIMED" <=> k = 2 * n + 2

\* No leg but the last ends at the destination of the itinerary.
ArrivesOnce(it) ==
    \A i \in 1..(Len(it.legs) - 1) : it.legs[i].destination # it.destination

\* C22 as stated: a cargo assigned a well-formed itinerary from its origin to
\* its destination, whose handling events are each the next expected
\* activity, has every event succeed, is never misdirected, is expected to
\* be received at the origin, loaded and unloaded leg by leg and claimed at
\* the destination, and is CLAIMED, with nothing expected, after exactly
\* 2 + 2 * |legs| events.
C22_OnRouteProgress ==
    (Len(log) >= 2 /\ WellFormed(cargo[1].route[1], cargo[1])) =>
        OnRoute(cargo[1].route[1])

\* C22, amended: the same, for an itinerary of which no leg but the last ends
\* at the destination of the cargo.
C22_OnRouteProgressArrivingOnce ==
    (/\ Len(log) >= 2
     /\ WellFormed(cargo[1].route[1], cargo[1])
     /\ ArrivesOnce(cargo[1].route[1])) =>
        OnRoute(cargo[1].route[1])

\* A cargo was claimed at the end of an itinerary of three legs that comes
\* back to its origin on the way.
C22_Witness ==
    /\ Handled("CLAIM")
    /\ cargo[1].transport_status = "CLAIMED"
    /\ Len(cargo[1].route[1].legs) = 3
    /\ Len(log) = 10
    /\ ArrivesOnce(cargo[1].route[1])
    /\ cargo[1].route[1].legs[2].destination = cargo[1].route[1].origin

=============================================================================
